---- MODULE Spec2Model ----
(***************************************************************************)
(* Offline-first synchronisation core of DesignHub: the durable operation  *)
(* queue (services/offlineQueue.ts), the remote store adapter as seen by   *)
(* its callers (services/supabaseService.ts) and the controller logic of   *)
(* the App component (connectivity events, user write handlers).           *)
(*                                                                         *)
(* JavaScript runs one callback at a time: an action of this module is one *)
(* run of a callback from the point it is resumed to its next `await`.     *)
(***************************************************************************)
EXTENDS Integers, Sequences, FiniteSets, TLC

\* ---------------------------------------------------------------- bounds
\* number of addToQueue calls in a behaviour of SpecQueue / SpecFaults
MaxOps == 2
\* number of processQueue calls in a behaviour
MaxDrains == 2
\* number of user write actions in a behaviour of Spec
MaxActs == 3
\* number of changes other clients make in a behaviour of SpecLive / SpecFeed
MaxPeer == 2
\* number of user write actions in a behaviour of SpecLive
MaxLive == 1
\* the start dates a milestone can have are the days 1..MaxDate
MaxDate == 2

\* ------------------------------------------------------- QueuedOperation
Types == {"expense", "log", "message", "design", "milestone", "project"}

Actions == {"add", "update", "delete"}

\* How a call of the remote store adapter settles: the promise resolves to
\* true ("ok"), resolves to false ("false": the backend reported an error),
\* or rejects ("throw").
Outcomes == {"ok", "false", "throw"}

VARIABLES
  configured,  \* isSupabaseConfigured(): the backend client exists
  queue,       \* the parsed content of localStorage[QUEUE_KEY]
  nextId,      \* source of fresh ids (crypto.randomUUID)
  nextDrain,   \* number of the next processQueue call
  drain,       \* one record per processQueue call: its locals and position
  settled,     \* the call that returned last, 0 once anything ran after it
  last,        \* the callback that ran last, with what it saw
  isOnline,    \* App state isOnline (navigator.onLine and the two events)
  mounted,     \* the App component is mounted and its effects have run
  project,     \* App state project: the entities of each collection
  acts,        \* number of user write actions so far
  sinceOffline,\* the user actions since connectivity was lost
  lastSynced,  \* App state lastSynced: the callback whose new Date() it holds
  toast,       \* App state toast: the notification set last
  realtime,    \* Realtime is enabled for the tables and the App has subscribed
  remote,      \* the rows of the published tables of the remote store
  feed,        \* the change notifications on their way to this client
  peerActs,    \* number of changes other clients have made
  loading,     \* loadProject: its position and the data getProject read
  cache,       \* localStorage[STORAGE_KEY]: <<>> or the one text stored
  session,     \* App state session.isAuthenticated
  isSyncing,   \* App state isSyncing, shown by SyncIndicator
  passkeys,    \* table team_passkeys, and the last updateTeamPasskey call
  subs         \* the open change listeners of the App, counted per table

app == <<isOnline, mounted, project, acts, sinceOffline, cache, session, isSyncing>>

store == <<realtime, remote, feed, peerActs, loading, subs>>

vars ==
  <<configured, passkeys, queue, nextId, nextDrain, drain, settled, last, app,
    lastSynced, toast, store>>

DrainIds == 1..MaxDrains

\* No user action seen; `clean` says the queue was empty and no processQueue
\* call was in flight when connectivity was lost.
NoActs(clean) == [clean |-> clean, acts |-> <<>>]

Idle ==
  [pc |-> "idle", snap |-> <<>>, i |-> 1, success |-> 0, failed |-> 0,
   remaining |-> <<>>, ev |-> <<>>, during |-> {}, pred |-> 0, after |-> <<>>,
   trail |-> NoActs(FALSE)]

InFlight(d) == drain[d].pc \in {"import", "await"}

Ids(q) == {q[k].id : k \in 1..Len(q)}

Step(name) == [act |-> name, outcome |-> "none", ent |-> 0]

\* ------------------------------------------------------------ addToQueue
\* Mutant of Enqueued: the new operation is put in front.
EnqueuedInFront(q, type, action, data, id) ==
  <<[id |-> id, type |-> type, action |-> action, data |-> data]>> \o q

\* queue.push(newOperation); localStorage.setItem(QUEUE_KEY, ...)
Enqueued(q, type, action, data, id) ==
  Append(q, [id |-> id, type |-> type, action |-> action, data |-> data])

\* The calls in flight whose snapshot predates this enqueue remember it.
NoteEnqueue(id) ==
  [d \in DrainIds |->
     IF InFlight(d) THEN [drain[d] EXCEPT !.during = @ \cup {id}] ELSE drain[d]]

addToQueue(type, action, data) ==
  /\ queue' = Enqueued(queue, type, action, data, nextId)
  /\ nextId' = nextId + 1
  /\ drain' = NoteEnqueue(nextId)
  /\ settled' = 0

\* ------------------------------------------------------- the remote store
\* The tables a ProjectState collection is loaded from and subscribed to.
Tables == {"expenses", "logs", "designs", "messages", "timeline"}

TableOf(type) ==
  CASE type = "expense" -> "expenses"
    [] type = "log" -> "logs"
    [] type = "design" -> "designs"
    [] type = "message" -> "messages"
    [] type = "milestone" -> "timeline"
    [] OTHER -> "projects"

EventOf(action) ==
  CASE action = "add" -> "INSERT"
    [] action = "update" -> "UPDATE"
    [] action = "delete" -> "DELETE"

\* The value of a field that is not there (JavaScript `undefined`).
Undefined == 0 - 1

\* payload.new of a DELETE notification and payload.old of an INSERT: {}
NoRow == [id |-> Undefined, startDate |-> Undefined, status |-> "undefined"]

\* .insert(row) / .update({status}).eq('id', id) / .delete().eq('id', id)
Written(rows, event, row) ==
  CASE event = "INSERT" -> rows \cup {row}
    [] event = "UPDATE" ->
         {IF r.id = row.id THEN [r EXCEPT !.status = row.status] ELSE r : r \in rows}
    [] event = "DELETE" -> {r \in rows : r.id /= row.id}

\* The notifications the statement causes, one per row it changes.
Changes(rows, table, event, row) ==
  CASE event = "INSERT" ->
         << [table |-> table, eventType |-> event, new |-> row, old |-> NoRow] >>
    [] event = "UPDATE" ->
         IF \E r \in rows : r.id = row.id
           THEN << [table |-> table, eventType |-> event,
                    new |-> [(CHOOSE r \in rows : r.id = row.id) EXCEPT !.status = row.status],
                    old |-> [NoRow EXCEPT !.id = row.id]] >>
           ELSE <<>>
    [] event = "DELETE" ->
         IF \E r \in rows : r.id = row.id
           THEN << [table |-> table, eventType |-> event, new |-> NoRow,
                    old |-> [NoRow EXCEPT !.id = row.id]] >>
           ELSE <<>>

\* Mutant of Accepts: the tables have no primary key.
AcceptsAny(o, table, event, row) == TRUE

\* An insert of a row whose id (the primary key) is taken cannot succeed.
Accepts(o, table, event, row) ==
  ~(/\ realtime /\ o = "ok" /\ table \in Tables /\ event = "INSERT"
    /\ \E r \in remote[table] : r.id = row.id)

\* The store's part of an adapter call that settled with outcome o: when
\* the call resolved to true the statement was executed and its changes are
\* published to the subscribers, this client among them if it has a
\* listener open on the table.
Store(o, table, event, row) ==
  IF realtime /\ o = "ok" /\ table \in Tables
    THEN /\ remote' = [remote EXCEPT ![table] = Written(@, event, row)]
         /\ feed' = IF subs[table] > 0
                      THEN feed \o Changes(remote[table], table, event, row)
                      ELSE feed
    ELSE UNCHANGED <<remote, feed>>

\* Mutant of Unsubscribed: the listeners are left open.
StillSubscribed(ss) == ss

\* subscriptionsRef.current.forEach(sub => sub.unsubscribe()): every
\* listener the App opened and has not closed is in the ref.
Unsubscribed(ss) == [t \in Tables |-> 0]

\* subscribeToExpenses(...), ..., subscribeToTimeline(...)
Opened(ss) == [t \in Tables |-> ss[t] + 1]

\* The subscription effect after a render in which session.isAuthenticated
\* is s, having been `was` when the effect ran before (FALSE at the first
\* render): the cleanup the earlier run returned, then the body.
Subscriptions(was, s) ==
  LET cleaned == IF was /\ configured THEN Unsubscribed(subs) ELSE subs
  IN  IF s /\ configured THEN Opened(Unsubscribed(cleaned)) ELSE cleaned

\* ---------------------------------------------------------- processQueue
\* The type/action pairs for which the switch issues an adapter call.
HasHandler(op) ==
  \/ op.type = "expense" /\ op.action \in {"add", "delete"}
  \/ op.type \in {"log", "message", "milestone"} /\ op.action = "add"
  \/ op.type = "project" /\ op.action = "update"

\* Mutant of IsDesignAdd: the switch has no case for design operations.
NoDesignCase(op) == FALSE

\* case 'design': counted as failed and kept, without an adapter call.
IsDesignAdd(op) == op.type = "design" /\ op.action = "add"

\* Mutant of OpAt: the loop walks the queue newest first.
OpAtNewestFirst(r) == r.snap[Len(r.snap) + 1 - r.i]

\* The operation the loop is at (for (const op of queue)).
OpAt(r) == r.snap[r.i]

\* The loop from position r.i up to its next await, or to its end: a pair
\* without a case falls through the switch, design/add is kept, any other
\* pair issues its adapter call and suspends.
RECURSIVE RunLoop(_)
RunLoop(r) ==
  IF r.i > Len(r.snap) THEN [r EXCEPT !.pc = "save"]
  ELSE IF HasHandler(OpAt(r))
    THEN [r EXCEPT !.pc = "await",
                   !.ev = Append(@, [k |-> "call", op |-> OpAt(r).id])]
  ELSE IF IsDesignAdd(OpAt(r))
    THEN RunLoop([r EXCEPT !.failed = @ + 1,
                           !.remaining = Append(@, OpAt(r)),
                           !.i = @ + 1])
  ELSE RunLoop([r EXCEPT !.i = @ + 1])

\* Mutant of Counted: a kept operation is put in front of the kept ones.
CountedKeepsInFront(r, o) ==
  IF o = "throw"
    THEN [r EXCEPT !.failed = @ + 1, !.remaining = <<r.snap[r.i]>> \o @,
                   !.ev = Append(@, [k |-> o, op |-> r.snap[r.i].id]), !.i = @ + 1]
    ELSE [r EXCEPT !.success = @ + 1,
                   !.ev = Append(@, [k |-> o, op |-> r.snap[r.i].id]), !.i = @ + 1]

\* Mutant of Counted: a call that raises ends the loop.
CountedStopsOnThrow(r, o) ==
  IF o = "throw"
    THEN [r EXCEPT !.failed = @ + 1, !.remaining = Append(@, r.snap[r.i]),
                   !.ev = Append(@, [k |-> o, op |-> r.snap[r.i].id]),
                   !.i = Len(r.snap) + 1]
    ELSE [r EXCEPT !.success = @ + 1,
                   !.ev = Append(@, [k |-> o, op |-> r.snap[r.i].id]), !.i = @ + 1]

\* Mutant of Counted: a replayed operation is kept whatever the outcome.
CountedKeepsOp(r, o) ==
  IF o = "throw"
    THEN [r EXCEPT !.failed = @ + 1, !.remaining = Append(@, r.snap[r.i]),
                   !.ev = Append(@, [k |-> o, op |-> r.snap[r.i].id]), !.i = @ + 1]
    ELSE [r EXCEPT !.success = @ + 1, !.remaining = Append(@, r.snap[r.i]),
                   !.ev = Append(@, [k |-> o, op |-> r.snap[r.i].id]), !.i = @ + 1]

\* What the awaited adapter call leaves behind: success++ when the promise
\* resolves (whatever it resolves to), the catch block when it rejects.
Counted(r, o) ==
  IF o = "throw"
    THEN [r EXCEPT !.failed = @ + 1, !.remaining = Append(@, OpAt(r)),
                   !.ev = Append(@, [k |-> o, op |-> OpAt(r).id]), !.i = @ + 1]
    ELSE [r EXCEPT !.success = @ + 1,
                   !.ev = Append(@, [k |-> o, op |-> OpAt(r).id]), !.i = @ + 1]

\* The outcomes an adapter call can have: without a backend client
\* `supabase` is null and supabase.from(...) is a TypeError.
AdapterOutcomes == IF configured THEN Outcomes ELSE {"throw"}

\* Mutant of Finish: the queue is not cleared when nothing remains.
FinishKeepsQueue(d, r) ==
  IF r.pc = "save"
    THEN /\ queue' = IF r.remaining = <<>> THEN queue ELSE r.remaining
         /\ drain' = [drain EXCEPT ![d] = [r EXCEPT !.pc = "done", !.after = queue']]
         /\ settled' = IF \E e \in DrainIds \ {d} : InFlight(e) THEN 0 ELSE d
    ELSE /\ queue' = queue
         /\ drain' = [drain EXCEPT ![d] = r]
         /\ settled' = settled

\* if (remaining.length > 0) setItem(remaining) else clearQueue(); return
Finish(d, r) ==
  IF r.pc = "save"
    THEN /\ queue' = r.remaining
         /\ drain' = [drain EXCEPT ![d] = [r EXCEPT !.pc = "done", !.after = r.remaining]]
         /\ settled' = IF \E e \in DrainIds \ {d} : InFlight(e) THEN 0 ELSE d
    ELSE /\ queue' = queue
         /\ drain' = [drain EXCEPT ![d] = r]
         /\ settled' = settled

\* const queue = getQueue(); if (queue.length === 0) return {0, 0};
\* otherwise up to `await import('./supabaseService')`.
Begin(d) ==
  /\ nextDrain = d
  /\ nextDrain' = nextDrain + 1
  /\ settled' = IF queue = <<>> /\ \A e \in DrainIds : ~InFlight(e) THEN d ELSE 0
  /\ drain' = [drain EXCEPT ![d] =
       [Idle EXCEPT !.pc = IF queue = <<>> THEN "done" ELSE "import",
                    !.snap = queue, !.pred = settled, !.after = queue,
                    !.trail = sinceOffline]]
  /\ UNCHANGED <<queue, nextId, configured, passkeys>>

\* setLastSynced(new Date()): the date is a fresh value, named after the
\* callback that took it.
Now(kind, n) == <<kind, n>>

\* const result = await processQueue(); ...; setLastSynced(new Date()) in
\* handleOnline, the caller of every processQueue call of the mounted App.
Resumed(d) == IF mounted /\ drain'[d].pc = "done" THEN Now("drain", d) ELSE lastSynced

\* setToast({message, type}); n is the number the message quotes.
Toast(message, n) == [message |-> message, n |-> n]

\* Mutant of Notified: the summary is shown after every drain.
NotifiedAlways(d) ==
  IF mounted /\ drain'[d].pc = "done"
    THEN Toast("Synced pending changes", drain'[d].success)
    ELSE toast

\* if (result.success > 0) setToast(`Synced ${result.success} pending changes`)
Notified(d) ==
  IF mounted /\ drain'[d].pc = "done" /\ drain'[d].success > 0
    THEN Toast("Synced pending changes", drain'[d].success)
    ELSE toast

\* finally { setIsSyncing(false) } of handleOnline, when its call is over.
Idled(d) == IF mounted /\ drain'[d].pc = "done" THEN FALSE ELSE isSyncing

\* The import resolves and the loop runs to its first adapter call.
ImportResolved(d) ==
  /\ drain[d].pc = "import"
  /\ Finish(d, RunLoop(drain[d]))
  /\ last' = Step("import")
  /\ lastSynced' = Resumed(d)
  /\ toast' = Notified(d)
  /\ isSyncing' = Idled(d)
  /\ UNCHANGED <<nextId, nextDrain, configured, passkeys, isOnline, mounted, project,
                  acts, sinceOffline, cache, session, store>>

\* The awaited adapter call settles and the loop runs on.
AdapterSettled(d) ==
  /\ drain[d].pc = "await"
  /\ \E o \in AdapterOutcomes :
       LET op == OpAt(drain[d]) IN
       /\ Accepts(o, TableOf(op.type), EventOf(op.action), op.data)
       /\ Store(o, TableOf(op.type), EventOf(op.action), op.data)
       /\ Finish(d, RunLoop(Counted(drain[d], o)))
  /\ last' = Step("settle")
  /\ lastSynced' = Resumed(d)
  /\ toast' = Notified(d)
  /\ isSyncing' = Idled(d)
  /\ UNCHANGED <<nextId, nextDrain, configured, passkeys, isOnline, mounted, project,
                  acts, sinceOffline, cache, session, realtime, peerActs, loading, subs>>

\* ------------------------------------------- the queue module on its own
\* A caller of the module that awaits each processQueue call before it
\* calls the module again.
Quiet == \A d \in DrainIds : ~InFlight(d)

CallAddToQueue ==
  /\ Quiet
  /\ nextId <= MaxOps
  /\ \E t \in Types, a \in Actions :
       /\ addToQueue(t, a, nextId)
       /\ last' = [Step("addToQueue") EXCEPT
                     !.ent = [type |-> t, action |-> a, data |-> nextId]]
  /\ UNCHANGED <<nextDrain, configured, passkeys, app, lastSynced, toast, store>>

CallProcessQueue ==
  /\ Quiet
  /\ \E d \in DrainIds : Begin(d)
  /\ last' = Step("processQueue")
  /\ UNCHANGED <<app, lastSynced, toast, store>>

\* ---------------------------------------------------- the team passkeys
\* The passkeys a user types, and the form of each that is stored and
\* compared (passkey.toLowerCase()).
Typed == {"team", "TEAM", "site", "ab"}

Lower(p) == IF p = "TEAM" THEN "team" ELSE p

\* newPasskey.length
Length(p) == IF p = "ab" THEN 2 ELSE 4

Keys == {Lower(p) : p \in Typed}

\* supabase-schema.sql: the table holds the active passkey 'team'. A row is
\* "active" or "inactive"; "none" says there is no row for the passkey.
SchemaPasskeys ==
  [rows |-> [k \in Keys |-> IF k = "team" THEN "active" ELSE "none"],
   ret |-> "none", old |-> "team", new |-> "team",
   before |-> [k \in Keys |-> IF k = "team" THEN "active" ELSE "none"]]

\* verifyTeamPasskey when its select is answered: a row with the passkey
\* and is_active = true is there.
Verifies(rows, p) == rows[Lower(p)] = "active"

\* update({is_active: false}).eq('passkey', old).eq('is_active', true)
Deactivated(rows, p) ==
  [rows EXCEPT ![Lower(p)] = IF @ = "active" THEN "inactive" ELSE @]

\* update({is_active: true}).eq('passkey', new), or the insert of the row
Activated(rows, p) == [rows EXCEPT ![Lower(p)] = "active"]

\* updateTeamPasskey(old, new). Every statement sent to the store is
\* either applied or answered with an error (d: the deactivation, s: the
\* select that looks for the new passkey, w: the reactivation or insert);
\* an insert of a passkey that has a row is refused (passkey is UNIQUE).
\* verifyTeamPasskey answers false on an error as well.
updateTeamPasskey(old, new) ==
  /\ \E v \in {Verifies(passkeys.rows, old), FALSE}, d, s, w \in BOOLEAN :
       LET call == [passkeys EXCEPT !.old = old, !.new = new, !.before = passkeys.rows]
           r1 == IF d THEN Deactivated(passkeys.rows, old) ELSE passkeys.rows
           existing == s /\ r1[Lower(new)] /= "none"
           written == IF existing THEN w ELSE w /\ r1[Lower(new)] = "none"
       IN  IF ~configured \/ ~v \/ Length(new) < 3
             THEN passkeys' = [call EXCEPT !.ret = "fail"]
             ELSE passkeys' =
                    [call EXCEPT !.rows = IF written THEN Activated(r1, new) ELSE r1,
                                 !.ret = IF written THEN "ok" ELSE "fail"]
  /\ last' = Step("updateTeamPasskey")
  /\ UNCHANGED <<configured, queue, nextId, nextDrain, drain, settled, app,
                  lastSynced, toast, store>>

NextPasskey == \E old, new \in Typed : updateTeamPasskey(old, new)

EmptyProject ==
  [expenses |-> <<>>, logs |-> <<>>, designs |-> <<>>, messages |-> <<>>,
   timeline |-> <<>>]

EmptyTables == [t \in Tables |-> {}]

\* ------------------------------------------- the cached project snapshot
\* The properties the App reads of an entity of a collection.
Fields(table) == IF table = "timeline" THEN {"id", "startDate", "status"} ELSE {"id"}

\* Mutant of Text: the status of a milestone is not written.
TextNoStatus(e) == [f \in {f \in DOMAIN e : e[f] /= NoRow[f]} \ {"status"} |-> e[f]]

\* JSON.stringify of an object: a property whose value is undefined is
\* left out of the text. The text is held as the object it denotes.
Text(e) == [f \in {f \in DOMAIN e : e[f] /= NoRow[f]} |-> e[f]]

\* JSON.stringify(project): each collection is an array in its order.
Stringify(p) == [t \in DOMAIN p |-> [k \in 1..Len(p[t]) |-> Text(p[t][k])]]

\* JSON.parse(text): the objects have the properties the text holds;
\* reading any other property of them gives undefined.
Parse(text) ==
  [t \in DOMAIN text |->
     [k \in 1..Len(text[t]) |->
        [f \in Fields(t) |-> IF f \in DOMAIN text[t][k] THEN text[t][k][f] ELSE NoRow[f]]]]

\* useState initializer of project: the cached snapshot, else the default.
Hydrate(c) == IF c = <<>> THEN EmptyProject ELSE Parse(c[1])

\* localStorage.setItem(STORAGE_KEY, JSON.stringify(p))
Cached(p) == <<Stringify(p)>>

InitStore ==
  /\ configured \in BOOLEAN
  /\ passkeys = SchemaPasskeys
  /\ queue = <<>>
  /\ nextId = 1
  /\ nextDrain = 1
  /\ drain = [d \in DrainIds |-> Idle]
  /\ settled = 0
  /\ last = Step("init")
  /\ lastSynced = Now("none", 0)
  /\ toast = Toast("", 0)
  /\ realtime = FALSE
  /\ remote = EmptyTables
  /\ feed = <<>>
  /\ peerActs = 0
  /\ loading = [pc |-> "done", data |-> EmptyProject, lost |-> {}]
  /\ subs = [t \in Tables |-> 0]
  /\ session = TRUE

InitQueue ==
  /\ InitStore
  /\ isOnline = TRUE
  /\ mounted = FALSE
  /\ isSyncing = FALSE
  /\ project = EmptyProject
  /\ cache = Cached(EmptyProject)
  /\ acts = 0
  /\ sinceOffline = NoActs(FALSE)

NextQueue ==
  \/ CallAddToQueue
  \/ CallProcessQueue
  \/ \E d \in DrainIds : ImportResolved(d)
  \/ \E d \in DrainIds : AdapterSettled(d)

SpecQueue == InitQueue /\ [][NextQueue]_vars

SpecPasskey == InitQueue /\ [][NextPasskey]_vars

\* The promise a call awaits settles (the module loader and the HTTP client
\* answer or fail), and the event loop then resumes the call.
SpecQueueFair ==
  /\ SpecQueue
  /\ \A d \in DrainIds : WF_vars(ImportResolved(d)) /\ WF_vars(AdapterSettled(d))

\* ----------------------------------- the queue module with failing storage
\* getQueue() raises (localStorage.getItem or JSON.parse): line 35 is outside
\* the try block, so the call rejects before it has done anything.
ReadFails ==
  /\ Quiet
  /\ \E d \in DrainIds :
       /\ nextDrain = d
       /\ drain' = [drain EXCEPT ![d] = [Idle EXCEPT !.pc = "raised", !.after = queue]]
  /\ nextDrain' = nextDrain + 1
  /\ settled' = 0
  /\ last' = Step("processQueue")
  /\ UNCHANGED <<queue, nextId, configured, passkeys, app, lastSynced, toast, store>>

\* await import('./supabaseService') rejects: lines 43-51 are outside the try.
ImportRejected(d) ==
  /\ drain[d].pc = "import"
  /\ drain' = [drain EXCEPT ![d] = [@ EXCEPT !.pc = "raised", !.after = queue]]
  /\ settled' = 0
  /\ last' = Step("import")
  /\ UNCHANGED <<queue, nextId, nextDrain, configured, passkeys, app, lastSynced, toast, store>>

\* localStorage.setItem(QUEUE_KEY, remaining) raises (line 107): the queue
\* keeps what it held and the call rejects.
WriteRaised(d, r) ==
  /\ r.pc = "save"
  /\ r.remaining /= <<>>
  /\ drain' = [drain EXCEPT ![d] = [r EXCEPT !.pc = "raised", !.after = queue]]
  /\ settled' = 0
  /\ UNCHANGED <<queue, nextId, nextDrain, configured, passkeys, app, lastSynced, toast, store>>

WriteFailsAfterImport(d) ==
  /\ drain[d].pc = "import"
  /\ WriteRaised(d, RunLoop(drain[d]))
  /\ last' = Step("import")

WriteFailsAfterSettle(d) ==
  /\ drain[d].pc = "await"
  /\ \E o \in AdapterOutcomes : WriteRaised(d, RunLoop(Counted(drain[d], o)))
  /\ last' = Step("settle")

\* addToQueue raises in getQueue() or setItem(): nothing is stored.
AddToQueueFails ==
  /\ Quiet
  /\ nextId <= MaxOps
  /\ last' = Step("addToQueueRaised")
  /\ UNCHANGED <<queue, nextId, nextDrain, drain, settled, configured, passkeys, app, lastSynced, toast, store>>

NextFaults ==
  \/ NextQueue
  \/ ReadFails
  \/ AddToQueueFails
  \/ \E d \in DrainIds : ImportRejected(d)
  \/ \E d \in DrainIds : WriteFailsAfterImport(d)
  \/ \E d \in DrainIds : WriteFailsAfterSettle(d)

SpecFaults == InitQueue /\ [][NextFaults]_vars

\* ------------------------------------------------------- the App component
\* An expense, log entry, design item or chat message: its id stands for it.
Entity(id) == [id |-> id]

Milestone(id, startDate, status) == [id |-> id, startDate |-> startDate, status |-> status]

\* The status a milestone is created with, and the one the select sets in
\* a model where the statuses play no part.
Planned == "planned"

Completed == "completed"

\* The first date of the calendar.
Day1 == 1

\* A project loaded with one expense and one milestone.
SeededProject ==
  [EmptyProject EXCEPT !.expenses = <<Entity(0)>>,
                       !.timeline = <<Milestone(0, Day1, Planned)>>]

\* crypto.randomUUID() for the next entity a client creates.
NewEnt == acts + peerActs + 1

\* collection.filter(x => x.id !== id)
Remove(q, id) == SelectSeq(q, LAMBDA x : x.id /= id)

\* timeline.map(item => item.id === id ? {...item, status} : item)
WithStatus(q, id, status) ==
  [k \in 1..Len(q) |-> IF q[k].id = id THEN [q[k] EXCEPT !.status = status] ELSE q[k]]

\* a.startDate.localeCompare(b.startDate) <= 0 for a start date a.startDate:
\* two ISO dates compare as dates, and localeCompare(undefined) compares
\* with the string "undefined", which is behind every date.
NotAfter(a, b) ==
  b.startDate = Undefined \/ (a.startDate /= Undefined /\ a.startDate <= b.startDate)

NoStart(q) == {k \in 1..Len(q) : q[k].startDate = Undefined}

\* undefined.localeCompare(...) is a TypeError: the sort raises when its
\* comparator is called with a milestone without a start date as `a`. Which
\* of two elements is `a` is up to the engine; of two such milestones one is.
MayRaise(q) == Len(q) >= 2 /\ NoStart(q) /= {}

MustRaise(q) == Cardinality(NoStart(q)) >= 2

\* Mutant of InsertByStart: the milestone is left at the end.
InsertAtEnd(q, m) == Append(q, m)

\* One step of the stable sort: m goes behind the last element that is not
\* after it.
InsertByStart(q, m) ==
  LET before == {k \in 0..Len(q) : \A j \in (k + 1)..Len(q) : ~NotAfter(q[j], m)}
      at == CHOOSE k \in before : \A j \in before : k <= j
  IN  SubSeq(q, 1, at) \o <<m>> \o SubSeq(q, at + 1, Len(q))

\* [...].sort((a, b) => a.startDate.localeCompare(b.startDate)): stable.
RECURSIVE SortByStart(_)
SortByStart(q) ==
  IF q = <<>> THEN <<>>
  ELSE InsertByStart(SortByStart(SubSeq(q, 1, Len(q) - 1)), q[Len(q)])

Members(q) == {q[k] : k \in 1..Len(q)}

\* Mutant of handleOnline: connectivity is recorded but no drain is started.
handleOnlineNoDrain ==
  /\ isOnline' = TRUE
  /\ sinceOffline' = NoActs(FALSE)
  /\ isSyncing' = FALSE
  /\ UNCHANGED <<queue, nextId, nextDrain, drain, settled, configured, passkeys, lastSynced, toast>>

\* handleOnline: setIsOnline(true); setIsSyncing(true); await
\* processQueue(); and, the queue being empty, on to setLastSynced(new
\* Date()) and setIsSyncing(false).
handleOnline ==
  /\ isOnline' = TRUE
  /\ \E d \in DrainIds :
       /\ Begin(d) /\ lastSynced' = Resumed(d) /\ toast' = Notified(d)
       /\ isSyncing' = (drain'[d].pc /= "done")
  /\ sinceOffline' = NoActs(FALSE)

\* setProject(JSON.parse(cached)) under `if (cached)`, in loadProject.
FromCache == IF cache = <<>> THEN project ELSE Parse(cache[1])

\* The page is opened: project is initialised from the cached snapshot and
\* the effects run in order. With an authenticated session loadProject
\* starts (the read of a configured store is awaited, an unconfigured one
\* is answered from the cache at once; a store out of reach answers with
\* no project, which sets nothing), the listeners are opened and the
\* cache effect writes the snapshot back; the effect of lines 140-173
\* registers the window listeners and, if navigator.onLine, runs
\* handleOnline(), whose drain of an empty queue is over at once.
Mount ==
  /\ ~mounted
  /\ mounted' = TRUE
  /\ project' = Hydrate(cache)
  /\ cache' = IF session THEN Cached(project') ELSE cache
  /\ loading' = IF session /\ configured /\ realtime
                  THEN [pc |-> "pending", data |-> EmptyProject, lost |-> {}]
                  ELSE loading
  /\ subs' = Subscriptions(FALSE, session)
  /\ toast' = IF session /\ ~configured
                THEN Toast("Supabase not configured. Using local storage only.", 0)
                ELSE toast
  /\ IF isOnline
       THEN /\ isOnline' = TRUE
            /\ \E d \in DrainIds :
                 /\ Begin(d)
                 /\ lastSynced' = IF drain'[d].pc = "done" THEN Now("drain", d)
                                                            ELSE lastSynced
                 /\ isSyncing' = (drain'[d].pc /= "done")
            /\ sinceOffline' = NoActs(FALSE)
       ELSE /\ isSyncing' = FALSE
            /\ UNCHANGED <<queue, nextId, nextDrain, drain, settled, configured, passkeys,
                            isOnline, sinceOffline, lastSynced>>
  /\ last' = Step("mount")
  /\ UNCHANGED <<acts, session, realtime, remote, feed, peerActs>>

\* window 'online' event: the browser fires it when connectivity returns.
OnlineEvent ==
  /\ mounted
  /\ ~isOnline
  /\ handleOnline
  /\ last' = Step("online")
  /\ UNCHANGED <<mounted, project, cache, acts, session, store>>

\* window 'offline' event: handleOffline.
OfflineEvent ==
  /\ mounted
  /\ isOnline
  /\ isOnline' = FALSE
  /\ sinceOffline' = NoActs(queue = <<>> /\ Quiet)
  /\ last' = Step("offline")
  /\ UNCHANGED <<queue, nextId, nextDrain, drain, settled, configured, passkeys,
                  mounted, project, cache, acts, session, isSyncing, lastSynced, toast, store>>

\* The render after a setProject whose updater returns: the component stays
\* mounted and, project having changed, the cache effect of lines 176-180
\* writes the new snapshot if the session is authenticated.
Rendered == mounted' = mounted /\ cache' = IF session THEN Cached(project') ELSE cache

\* setProject(p => ({...p, timeline: q.sort(...)})): the updater runs in the
\* next render; if the sort raises there, the error is uncaught and React
\* unmounts the component tree, the state being what it was.
SetTimeline(q) ==
  \/ /\ ~MustRaise(q)
     /\ project' = [project EXCEPT !.timeline = SortByStart(q)]
     /\ Rendered
  \/ /\ MayRaise(q)
     /\ project' = project
     /\ mounted' = FALSE
     /\ cache' = cache

\* The notification a user write handler sets, given how its adapter call
\* settled ("none": no call was made); the chat form, the expense delete,
\* the status select and the project inputs set none.
Shown(name, o) ==
  CASE name \in {"addExpense", "addLog", "addMilestone"} /\ o = "throw" ->
         Toast("Saved offline, will sync when online", 0)
    [] name = "addExpense" /\ o \in {"ok", "false"} -> Toast("Expense recorded", 0)
    [] name = "addExpense" /\ o = "none" /\ configured -> Toast("Saved offline", 0)
    [] name = "addExpense" /\ o = "none" /\ ~configured -> Toast("Expense saved locally", 0)
    [] name = "addLog" /\ o \in {"ok", "false"} -> Toast("Log entry added", 0)
    [] name = "addMilestone" /\ o \in {"ok", "false"} -> Toast("Milestone added", 0)
    [] name \in {"addLog", "addMilestone"} /\ o = "none" -> Toast("Saved offline", 0)
    [] name = "deleteMilestone" /\ o \in {"ok", "false"} -> Toast("Milestone deleted", 0)
    [] name = "deleteMilestone" /\ o = "throw" -> Toast("Error deleting milestone", 0)
    [] name = "deleteMilestone" /\ o = "none" -> Toast("Milestone deleted locally", 0)
    [] OTHER -> toast

\* The handlers that wrap their adapter call in setIsSyncing(true) ...
\* finally { setIsSyncing(false) }: the expense, log and milestone forms.
ShowsSyncing == {"addExpense", "addLog", "addMilestone"}

\* The remote part of a user write handler. `direct` is the handler's
\* condition for calling the adapter, `onThrow` whether its catch block
\* enqueues, `otherwise` whether its else branch enqueues; the statement
\* after the awaited call is setLastSynced(new Date()). The handler
\* touches the queue at one point only (its addToQueue), so it is one action:
\* the action stands where that point falls among the other callbacks, and
\* the outcome of its adapter call is chosen there.
Sync(name, direct, onThrow, otherwise, type, action, ent) ==
  /\ mounted
  /\ session
  /\ acts < MaxActs
  /\ acts' = acts + 1
  /\ \E o \in (IF direct THEN AdapterOutcomes ELSE {"none"}) :
       /\ IF (direct /\ o = "throw" /\ onThrow) \/ (~direct /\ otherwise)
            THEN addToQueue(type, action, ent)
            ELSE UNCHANGED <<queue, nextId, drain, settled>>
       /\ last' = [act |-> name, outcome |-> o, ent |-> ent]
       /\ Accepts(o, TableOf(type), EventOf(action), ent)
       /\ Store(o, TableOf(type), EventOf(action), ent)
       /\ lastSynced' = IF o \in {"ok", "false"} THEN Now("act", acts') ELSE lastSynced
       /\ toast' = Shown(name, o)
  /\ isSyncing' = IF direct /\ name \in ShowsSyncing THEN FALSE ELSE isSyncing
  /\ sinceOffline' =
       IF isOnline \/ ~sinceOffline.clean THEN sinceOffline
       ELSE [sinceOffline EXCEPT !.acts = Append(@, [act |-> name, ent |-> ent])]
  /\ UNCHANGED <<nextDrain, configured, passkeys, isOnline, session, realtime, peerActs,
                  loading, subs>>

\* Expense form onSubmit.
AddExpense ==
  /\ project' = [project EXCEPT !.expenses = <<Entity(NewEnt)>> \o @]
  /\ Rendered
  /\ Sync("addExpense", configured /\ isOnline, TRUE, configured,
          "expense", "add", Entity(NewEnt))

handleAddLogEntry ==
  /\ project' = [project EXCEPT !.logs = <<Entity(NewEnt)>> \o @]
  /\ Rendered
  /\ Sync("addLog", isOnline, TRUE, TRUE, "log", "add", Entity(NewEnt))

\* Chat form onSubmit.
AddMessage ==
  /\ project' = [project EXCEPT !.messages = Append(@, Entity(NewEnt))]
  /\ Rendered
  /\ Sync("addMessage", isOnline, TRUE, TRUE, "message", "add", Entity(NewEnt))

handleAddMilestone(startDate) ==
  LET nm == Milestone(NewEnt, startDate, Planned) IN
  /\ SetTimeline(Append(project.timeline, nm))
  /\ Sync("addMilestone", isOnline, TRUE, TRUE, "milestone", "add", nm)

\* Expense row delete onClick.
DeleteExpense ==
  \E id \in Ids(project.expenses) :
    /\ project' = [project EXCEPT !.expenses = Remove(@, id)]
    /\ Rendered
    /\ Sync("deleteExpense", isOnline, FALSE, FALSE, "expense", "delete", Entity(id))

\* Milestone status select onChange.
UpdateMilestone(ns) ==
  \E id \in Ids(project.timeline) :
    /\ project' = [project EXCEPT !.timeline = WithStatus(@, id, ns)]
    /\ Rendered
    /\ Sync("updateMilestone", configured /\ isOnline, FALSE, FALSE,
            "milestone", "update", [id |-> id, status |-> ns])

\* Milestone delete onClick.
DeleteMilestone ==
  \E id \in Ids(project.timeline) :
    /\ project' = [project EXCEPT !.timeline = Remove(@, id)]
    /\ Rendered
    /\ Sync("deleteMilestone", configured /\ isOnline, FALSE, FALSE,
            "milestone", "delete", Entity(id))

\* mediaRecorder.onstop: the voice note is added to the chat with an empty
\* audioUrl; online, uploadVoiceNote is awaited, which returns the public
\* URL ("ok": file uploaded and chat message inserted) or null ("false"),
\* and null is turned into a raised error; the catch block and the offline
\* branch call addToQueue with the message.
onstop ==
  /\ mounted
  /\ session
  /\ acts < MaxActs
  /\ acts' = acts + 1
  /\ project' = [project EXCEPT !.messages = Append(@, Entity(NewEnt))]
  /\ Rendered
  /\ \E o \in (IF isOnline THEN AdapterOutcomes ELSE {"none"}) :
       /\ IF o = "ok"
            THEN UNCHANGED <<queue, nextId, drain, settled>>
            ELSE addToQueue("message", "add", Entity(NewEnt))
       /\ last' = [act |-> "voiceNote", outcome |-> o, ent |-> Entity(NewEnt)]
       /\ Accepts(o, "messages", "INSERT", Entity(NewEnt))
       /\ Store(o, "messages", "INSERT", Entity(NewEnt))
       /\ lastSynced' = IF o = "ok" THEN Now("act", acts') ELSE lastSynced
       /\ toast' = CASE o \in {"false", "throw"} ->
                          Toast("Voice note saved offline, will sync when online", 0)
                     [] o = "none" -> Toast("Voice note saved offline", 0)
                     [] OTHER -> toast
  /\ sinceOffline' =
       IF isOnline \/ ~sinceOffline.clean THEN sinceOffline
       ELSE [sinceOffline EXCEPT
               !.acts = Append(@, [act |-> "voiceNote", ent |-> Entity(NewEnt)])]
  /\ isSyncing' = IF isOnline THEN FALSE ELSE isSyncing
  /\ UNCHANGED <<nextDrain, configured, passkeys, isOnline, session, realtime, peerActs,
                  loading, subs>>

\* Project name / total budget input onBlur.
UpdateProject ==
  /\ UNCHANGED <<project, mounted, cache>>
  /\ Sync("updateProject", isOnline, FALSE, FALSE, "project", "update", Entity(0))

Init ==
  /\ InitStore
  /\ isOnline \in BOOLEAN
  /\ mounted = FALSE
  /\ isSyncing = FALSE
  /\ project = SeededProject
  /\ cache = Cached(SeededProject)
  /\ acts = 0
  /\ sinceOffline = NoActs(FALSE)

\* The forms are submitted MaxOps times at most; the expense delete button
\* may still be pressed after that (MaxActs user actions in all).
Next ==
  \/ Mount
  \/ OnlineEvent
  \/ OfflineEvent
  \/ acts < MaxOps /\ AddExpense
  \/ acts < MaxOps /\ handleAddLogEntry
  \/ acts < MaxOps /\ AddMessage
  \/ acts < MaxOps /\ handleAddMilestone(Day1)
  \/ DeleteExpense
  \/ acts < MaxOps /\ UpdateMilestone(Completed)
  \/ acts < MaxOps /\ DeleteMilestone
  \/ acts < MaxOps /\ UpdateProject
  \/ \E d \in DrainIds : ImportResolved(d)
  \/ \E d \in DrainIds : AdapterSettled(d)

Spec == Init /\ [][Next]_vars

\* ------------------------------ the App with the store and its change feed
Dates == 1..MaxDate

Statuses == {"planned", "in-progress", "delayed", "completed"}

\* .order('date' / 'timestamp', {ascending}): a row's date is the time it
\* was created at, which the ids follow.
RECURSIVE ById(_, _)
ById(rows, ascending) ==
  IF rows = {} THEN <<>>
  ELSE LET r == CHOOSE r \in rows :
                  \A x \in rows : IF ascending THEN r.id <= x.id ELSE x.id <= r.id
       IN  <<r>> \o ById(rows \ {r}, ascending)

\* .order('start_date', {ascending: true}): the orders the store can return
\* the rows in, rows of one date in any order.
RECURSIVE ByStart(_)
ByStart(rows) ==
  IF rows = {} THEN {<<>>}
  ELSE UNION {{<<r>> \o t : t \in ByStart(rows \ {r})} :
                r \in {r \in rows : \A x \in rows : r.startDate <= x.startDate}}

\* getProject(): the project row, then the five tables.
GetProject ==
  /\ configured
  /\ loading.pc = "pending"
  /\ \E t \in ByStart(remote.timeline) :
       loading' = [pc |-> "read",
                   data |-> [expenses |-> ById(remote.expenses, FALSE),
                             logs |-> ById(remote.logs, FALSE),
                             designs |-> ById(remote.designs, FALSE),
                             messages |-> ById(remote.messages, TRUE),
                             timeline |-> t],
                   lost |-> {}]
  /\ last' = Step("getProject")
  /\ UNCHANGED <<configured, passkeys, queue, nextId, nextDrain, drain, settled, app,
                  lastSynced, toast, realtime, remote, feed, peerActs, subs>>

\* loadProject after `await getProject()`: setProject(projectData);
\* localStorage.setItem(STORAGE_KEY, JSON.stringify(projectData));
\* setLastSynced(new Date()).
ProjectLoaded ==
  /\ mounted
  /\ loading.pc = "read"
  /\ project' = loading.data
  /\ cache' = Cached(loading.data)
  /\ lastSynced' = Now("load", 0)
  /\ loading' = [pc |-> "done", data |-> EmptyProject, lost |-> {}]
  /\ last' = Step("loadProject")
  /\ UNCHANGED <<configured, passkeys, queue, nextId, nextDrain, drain, settled, isOnline,
                  mounted, acts, sinceOffline, session, isSyncing, toast, realtime, remote, feed,
                  peerActs, subs>>

\* getProject() when the reads of the tables in `lost` fail: getExpenses,
\* getLogs, getDesigns, getMessages and getTimeline log the error and return
\* [], so getProject returns a project whose such collections are empty.
GetProjectPartly ==
  /\ configured
  /\ loading.pc = "pending"
  /\ \E t \in ByStart(remote.timeline), L \in (SUBSET Tables) \ {{}} :
       LET Got(c, rows) == IF c \in L THEN <<>> ELSE rows
       IN  loading' = [pc |-> "read",
                       data |-> [expenses |-> Got("expenses", ById(remote.expenses, FALSE)),
                                 logs |-> Got("logs", ById(remote.logs, FALSE)),
                                 designs |-> Got("designs", ById(remote.designs, FALSE)),
                                 messages |-> Got("messages", ById(remote.messages, TRUE)),
                                 timeline |-> Got("timeline", t)],
                       lost |-> L]
  /\ last' = Step("getProject")
  /\ UNCHANGED <<configured, passkeys, queue, nextId, nextDrain, drain, settled, app,
                  lastSynced, toast, realtime, remote, feed, peerActs, subs>>

\* getProject() returns null (the read of the project row fails, or no
\* default project can be created): loadProject sets nothing.
GetProjectNull ==
  /\ configured
  /\ loading.pc = "pending"
  /\ loading' = [pc |-> "done", data |-> EmptyProject, lost |-> {}]
  /\ last' = Step("getProjectNull")
  /\ UNCHANGED <<configured, passkeys, queue, nextId, nextDrain, drain, settled, app,
                  lastSynced, toast, realtime, remote, feed, peerActs, subs>>

\* getProject() raises: the catch of loadProject falls back to the cache.
GetProjectRaised ==
  /\ configured
  /\ mounted
  /\ loading.pc = "pending"
  /\ project' = FromCache
  /\ Rendered
  /\ toast' = Toast("Error connecting to Supabase. Using local storage.", 0)
  /\ loading' = [pc |-> "done", data |-> EmptyProject, lost |-> {}]
  /\ last' = Step("getProjectRaised")
  /\ UNCHANGED <<configured, passkeys, queue, nextId, nextDrain, drain, settled, isOnline,
                  acts, sinceOffline, session, isSyncing, lastSynced, realtime, remote, feed,
                  peerActs, subs>>

\* handleLogin reaches setSession({name, isAuthenticated: true}) and the
\* effects on [session.isAuthenticated] run: loadProject starts, the
\* listeners are opened, the cache effect writes the snapshot. One load is
\* in flight at a time.
Login ==
  /\ mounted
  /\ ~session
  /\ loading.pc = "done"
  /\ session' = TRUE
  /\ subs' = Subscriptions(FALSE, TRUE)
  /\ IF configured
       THEN /\ loading' = [pc |-> "pending", data |-> EmptyProject, lost |-> {}]
            /\ UNCHANGED <<project, toast>>
       ELSE /\ project' = FromCache
            /\ toast' = Toast("Supabase not configured. Using local storage only.", 0)
            /\ loading' = loading
  /\ cache' = Cached(project')
  /\ last' = Step("login")
  /\ UNCHANGED <<configured, passkeys, queue, nextId, nextDrain, drain, settled, isOnline, isSyncing,
                  mounted, acts, sinceOffline, lastSynced, realtime, remote, feed,
                  peerActs>>

\* Mutant of Logout: signing out clears the local storage of the page.
LogoutClearsStorage ==
  /\ mounted
  /\ session
  /\ session' = FALSE
  /\ subs' = Subscriptions(TRUE, FALSE)
  /\ queue' = <<>>
  /\ last' = Step("logout")
  /\ UNCHANGED <<configured, passkeys, nextId, nextDrain, drain, settled, isOnline, isSyncing,
                  mounted, project, cache, acts, sinceOffline, lastSynced, toast,
                  realtime, remote, feed, peerActs, loading>>

\* Sign Out: setSession({name: '', isAuthenticated: false}); the cleanup of
\* the subscription effect runs and its body returns at once.
Logout ==
  /\ mounted
  /\ session
  /\ session' = FALSE
  /\ subs' = Subscriptions(TRUE, FALSE)
  /\ last' = Step("logout")
  /\ UNCHANGED <<configured, passkeys, queue, nextId, nextDrain, drain, settled, isOnline, isSyncing,
                  mounted, project, cache, acts, sinceOffline, lastSynced, toast,
                  realtime, remote, feed, peerActs, loading>>

\* Another client's write that the store accepts: an insert of a new row
\* into any table (addExpense, addLog, uploadDesignImage, addMessage,
\* addMilestone), updateMilestone, or deleteExpense / deleteDesign /
\* deleteMilestone of a row that is there.
PeerWrites ==
  {[table |-> t, event |-> "INSERT", row |-> Entity(NewEnt)] :
     t \in Tables \ {"timeline"}}
  \cup {[table |-> "timeline", event |-> "INSERT", row |-> Milestone(NewEnt, d, Planned)] :
          d \in Dates}
  \cup {[table |-> "timeline", event |-> "UPDATE", row |-> [id |-> w[1].id, status |-> w[2]]] :
          w \in {x \in remote.timeline \X Statuses : x[1].status /= x[2]}}
  \cup UNION {{[table |-> t, event |-> "DELETE", row |-> Entity(r.id)] : r \in remote[t]} :
                t \in {"expenses", "designs", "timeline"}}

PeerChange ==
  /\ realtime
  /\ peerActs < MaxPeer
  /\ peerActs' = peerActs + 1
  /\ \E w \in PeerWrites : Store("ok", w.table, w.event, w.row)
  /\ last' = Step("peer")
  /\ UNCHANGED <<configured, passkeys, queue, nextId, nextDrain, drain, settled, app,
                  lastSynced, toast, realtime, loading, subs>>

\* Mutant of Merged: every callback appends at the end.
MergedAtEnd(table, q, e) == Append(q, e)

\* [expense, ...p.expenses], [log, ...p.logs], [design, ...p.designs], but
\* [...p.messages, message]
Merged(table, q, e) == IF table = "messages" THEN Append(q, e) ELSE <<e>> \o q

\* A change notification arrives. subscribeToExpenses calls back on INSERT;
\* the log, message and design channels are subscribed to INSERT only;
\* subscribeToTimeline calls back whenever payload.new is truthy, which {}
\* is. The callbacks of the App put the entity into its collection. A
\* notification for a table the App has no open listener for is dropped.
Deliver ==
  /\ mounted
  /\ feed /= <<>>
  /\ feed' = Tail(feed)
  /\ LET n == Head(feed) IN
     CASE subs[n.table] > 0 /\ n.table = "timeline" ->
            /\ SetTimeline(Append(project.timeline, n.new))
            /\ toast' = Toast("New milestone added", 0)
       [] subs[n.table] > 0 /\ n.table /= "timeline" /\ n.eventType = "INSERT" ->
            /\ project' = [project EXCEPT ![n.table] = Merged(n.table, @, n.new)]
            /\ Rendered
            /\ toast' = CASE n.table = "expenses" -> Toast("New expense added", 0)
                           [] n.table = "logs" -> Toast("New log entry added", 0)
                           [] n.table = "designs" -> Toast("New moodboard item added", 0)
                           [] OTHER -> toast
       [] OTHER -> UNCHANGED <<project, mounted, cache, toast>>
  /\ last' = Step("notify")
  /\ UNCHANGED <<configured, passkeys, queue, nextId, nextDrain, drain, settled, isOnline,
                  acts, sinceOffline, session, isSyncing, lastSynced, realtime, remote, peerActs,
                  loading, subs>>

SeededTables ==
  [EmptyTables EXCEPT !.expenses = {Entity(0)},
                      !.timeline = {Milestone(0, Day1, Planned)}]

\* The App mounted online with a saved session and nothing cached: the
\* mount effect has run handleOnline on an empty queue, loadProject is
\* awaiting getProject(), and the subscriptions are set up.
InitLive ==
  /\ configured = TRUE
  /\ passkeys = SchemaPasskeys
  /\ queue = <<>>
  /\ nextId = 1
  /\ nextDrain = 2
  /\ drain = [d \in DrainIds |-> IF d = 1 THEN [Idle EXCEPT !.pc = "done"] ELSE Idle]
  /\ settled = 1
  /\ last = Step("mount")
  /\ lastSynced = Now("drain", 1)
  /\ toast = Toast("", 0)
  /\ realtime = TRUE
  /\ remote = SeededTables
  /\ feed = <<>>
  /\ peerActs = 0
  /\ loading = [pc |-> "pending", data |-> EmptyProject, lost |-> {}]
  /\ subs = [t \in Tables |-> 1]
  /\ session = TRUE
  /\ isOnline = TRUE
  /\ mounted = TRUE
  /\ isSyncing = FALSE
  /\ project = EmptyProject
  /\ cache = Cached(EmptyProject)
  /\ acts = 0
  /\ sinceOffline = NoActs(FALSE)

NextLive ==
  \/ GetProject
  \/ ProjectLoaded
  \/ PeerChange
  \/ Deliver
  \/ acts < MaxLive /\ AddExpense
  \/ acts < MaxLive /\ AddMessage
  \/ acts < MaxLive /\ DeleteExpense
  \/ acts < MaxLive /\ \E startDate \in Dates : handleAddMilestone(startDate)
  \/ acts < MaxLive /\ \E ns \in Statuses : UpdateMilestone(ns)
  \/ acts < MaxLive /\ DeleteMilestone

SpecLive == InitLive /\ [][NextLive]_vars

\* ------------------------- a client that only watches what others change
NextFeed ==
  \/ GetProject
  \/ ProjectLoaded
  \/ PeerChange
  \/ Deliver

SpecFeed == InitLive /\ [][NextFeed]_vars

\* ------------------------------------ the App used for its expense form only
NextExpense ==
  \/ Mount
  \/ OnlineEvent
  \/ OfflineEvent
  \/ AddExpense
  \/ \E d \in DrainIds : ImportResolved(d)
  \/ \E d \in DrainIds : AdapterSettled(d)

SpecExpense == Init /\ [][NextExpense]_vars

\* The promises a processQueue call awaits settle and the call resumes; the
\* window events and the user's actions come when they come.
SpecExpenseFair ==
  /\ SpecExpense
  /\ \A d \in DrainIds : WF_vars(ImportResolved(d)) /\ WF_vars(AdapterSettled(d))

\* ------------------- the App offline and online, with the store it writes to
\* The App mounted offline on an empty project; the store is empty. What
\* the store publishes is left undelivered.
InitReplay ==
  /\ configured = TRUE
  /\ passkeys = SchemaPasskeys
  /\ queue = <<>>
  /\ nextId = 1
  /\ nextDrain = 1
  /\ drain = [d \in DrainIds |-> Idle]
  /\ settled = 0
  /\ last = Step("mount")
  /\ lastSynced = Now("none", 0)
  /\ toast = Toast("", 0)
  /\ realtime = TRUE
  /\ remote = EmptyTables
  /\ feed = <<>>
  /\ peerActs = 0
  /\ loading = [pc |-> "done", data |-> EmptyProject, lost |-> {}]
  /\ subs = [t \in Tables |-> 1]
  /\ session = TRUE
  /\ isOnline = FALSE
  /\ mounted = TRUE
  /\ isSyncing = FALSE
  /\ project = EmptyProject
  /\ cache = Cached(EmptyProject)
  /\ acts = 0
  /\ sinceOffline = NoActs(TRUE)

NextReplay ==
  \/ OnlineEvent
  \/ OfflineEvent
  \/ AddExpense
  \/ handleAddMilestone(Day1)
  \/ UpdateMilestone(Completed)
  \/ \E d \in DrainIds : ImportResolved(d)
  \/ \E d \in DrainIds : AdapterSettled(d)

SpecReplay == InitReplay /\ [][NextReplay]_vars

\* --------------------------------- the App used for its voice recorder only
NextVoice ==
  \/ Mount
  \/ OnlineEvent
  \/ OfflineEvent
  \/ onstop
  \/ \E d \in DrainIds : ImportResolved(d)
  \/ \E d \in DrainIds : AdapterSettled(d)

SpecVoice == Init /\ [][NextVoice]_vars

\* ------------------------------- sessions that end and start from the cache
\* The page is closed and the store is out of reach from then on: the
\* component state is gone (project keeps what it last was, for comparison
\* with the next session), the channels, a pending load and the
\* processQueue calls in flight end with the page, and the next session
\* finds navigator.onLine as it then is.
Unload ==
  /\ realtime
  /\ realtime' = FALSE
  /\ mounted' = FALSE
  /\ drain' = [d \in DrainIds |->
                 IF InFlight(d) THEN [drain[d] EXCEPT !.pc = "gone"] ELSE drain[d]]
  /\ isOnline' \in BOOLEAN
  /\ feed' = <<>>
  /\ loading' = [pc |-> "done", data |-> EmptyProject, lost |-> {}]
  /\ subs' = [t \in Tables |-> 0]
  /\ isSyncing' = FALSE
  /\ last' = Step("unload")
  /\ UNCHANGED <<configured, passkeys, queue, nextId, nextDrain, settled, project,
                  cache, acts, sinceOffline, session, lastSynced, toast, remote, peerActs>>

NextCache ==
  \/ GetProject
  \/ ProjectLoaded
  \/ PeerChange
  \/ Deliver
  \/ Unload
  \/ ~realtime /\ Mount
  \/ acts < MaxLive /\ AddExpense
  \/ acts < MaxLive /\ AddMessage
  \/ acts < MaxLive /\ \E startDate \in Dates : handleAddMilestone(startDate)
  \/ acts < MaxLive /\ \E ns \in Statuses : UpdateMilestone(ns)
  \/ acts < MaxLive /\ DeleteMilestone

SpecCache == InitLive /\ [][NextCache]_vars

\* --------------------------------------- signing in and out of the open App
\* The App open on its login screen, online, over the cache of an earlier
\* session; since then another client has completed the milestone.
InitSession ==
  /\ configured \in BOOLEAN
  /\ passkeys = SchemaPasskeys
  /\ queue = <<>>
  /\ nextId = 1
  /\ nextDrain = 2
  /\ drain = [d \in DrainIds |-> IF d = 1 THEN [Idle EXCEPT !.pc = "done"] ELSE Idle]
  /\ settled = 1
  /\ last = Step("mount")
  /\ lastSynced = Now("drain", 1)
  /\ toast = Toast("", 0)
  /\ realtime = TRUE
  /\ remote = [SeededTables EXCEPT !.timeline = {Milestone(0, Day1, Completed)}]
  /\ feed = <<>>
  /\ peerActs = 0
  /\ loading = [pc |-> "done", data |-> EmptyProject, lost |-> {}]
  /\ subs = [t \in Tables |-> 0]
  /\ session = FALSE
  /\ isOnline = TRUE
  /\ mounted = TRUE
  /\ isSyncing = FALSE
  /\ project = SeededProject
  /\ cache = Cached(SeededProject)
  /\ acts = 0
  /\ sinceOffline = NoActs(FALSE)

NextSession ==
  \/ Login
  \/ Logout
  \/ GetProject
  \/ GetProjectPartly
  \/ GetProjectNull
  \/ GetProjectRaised
  \/ ProjectLoaded
  \/ peerActs < MaxLive /\ PeerChange
  \/ Deliver

SpecSession == InitSession /\ [][NextSession]_vars

\* ------------------------------ the queue across sessions of the App
\* getQueue(): localStorage.getItem(QUEUE_KEY) and JSON.parse; it writes
\* nothing.
CallGetQueue ==
  /\ last.act /= "getQueue"
  /\ last' = Step("getQueue")
  /\ UNCHANGED <<configured, passkeys, queue, nextId, nextDrain, drain, settled, app,
                  lastSynced, toast, store>>

NextDurable ==
  \/ OnlineEvent
  \/ OfflineEvent
  \/ acts < MaxOps /\ AddExpense
  \/ Login
  \/ Logout
  \/ GetProjectNull
  \/ Deliver
  \/ Unload
  \/ Mount
  \/ CallGetQueue
  \/ \E d \in DrainIds : ImportResolved(d)
  \/ \E d \in DrainIds : AdapterSettled(d)

SpecDurable == InitReplay /\ [][NextDurable]_vars

\* ------------------------------- adds and deletes made offline, then a drain
NextOffline ==
  \/ OnlineEvent
  \/ OfflineEvent
  \/ acts < MaxOps /\ AddExpense
  \/ acts < MaxOps /\ handleAddLogEntry
  \/ acts < MaxOps /\ AddMessage
  \/ acts < MaxOps /\ handleAddMilestone(Day1)
  \/ acts < MaxOps /\ DeleteExpense
  \/ acts < MaxOps /\ DeleteMilestone
  \/ \E d \in DrainIds : ImportResolved(d)
  \/ \E d \in DrainIds : AdapterSettled(d)

SpecOffline == InitReplay /\ [][NextOffline]_vars

\* ------------------------- a session that starts with operations queued
\* What an earlier session queued while offline: the adds of an expense
\* and of a chat message.
PendingAdds ==
  <<[id |-> 1, type |-> "expense", action |-> "add", data |-> Entity(1)],
    [id |-> 2, type |-> "message", action |-> "add", data |-> Entity(2)]>>

\* The project that session cached: the seeded project with both entities.
PendingProject ==
  [SeededProject EXCEPT !.expenses = <<Entity(1)>> \o @,
                        !.messages = Append(@, Entity(2))]

\* The page is about to be opened online, with a saved session, over the
\* cache and the queue of that earlier session.
InitRestart ==
  /\ configured = TRUE
  /\ passkeys = SchemaPasskeys
  /\ queue = PendingAdds
  /\ nextId = 3
  /\ nextDrain = 1
  /\ drain = [d \in DrainIds |-> Idle]
  /\ settled = 0
  /\ last = Step("init")
  /\ lastSynced = Now("none", 0)
  /\ toast = Toast("", 0)
  /\ realtime = TRUE
  /\ remote = SeededTables
  /\ feed = <<>>
  /\ peerActs = 0
  /\ loading = [pc |-> "done", data |-> EmptyProject, lost |-> {}]
  /\ subs = [t \in Tables |-> 0]
  /\ session = TRUE
  /\ isOnline = TRUE
  /\ mounted = FALSE
  /\ isSyncing = FALSE
  /\ project = PendingProject
  /\ cache = Cached(PendingProject)
  /\ acts = 2
  /\ sinceOffline = NoActs(FALSE)

NextRestart ==
  \/ Mount
  \/ GetProject
  \/ ProjectLoaded
  \/ Deliver
  \/ \E d \in DrainIds : ImportResolved(d)
  \/ \E d \in DrainIds : AdapterSettled(d)

SpecRestart == InitRestart /\ [][NextRestart]_vars

\* ------------------------------------------------- reading a drain's log
Done(d) == drain[d].pc = "done"

\* The adapter call for operation `id` settled with outcome k in call r.
Settled(r, id, k) == \E j \in 1..Len(r.ev) : r.ev[j] = [k |-> k, op |-> id]

EvIds(r, kinds) ==
  LET sel == SelectSeq(r.ev, LAMBDA e : e.k \in kinds)
  IN  [j \in 1..Len(sel) |-> sel[j].op]

SeqIds(q) == [j \in 1..Len(q) |-> q[j].id]

\* No adapter call of r reported a failure, returned or raised.
AllOk(r) == \A j \in 1..Len(r.ev) : r.ev[j].k \in {"call", "ok"}

NoThrow(r) == \A j \in 1..Len(r.ev) : r.ev[j].k /= "throw"

Count(r, P(_)) == Cardinality({k \in 1..Len(r.snap) : P(r.snap[k])})

Pos(r, id) == CHOOSE k \in 1..Len(r.snap) : r.snap[k].id = id

\* -------------------------------------------------------------------- C1
\* C1 (as claimed): after a processQueue call an operation of the queue it
\* started with is absent from the queue iff its replay succeeded, and the
\* operations whose replay did not succeed are the ones counted in failed.
C1_RemovedIffReplaySucceeded ==
  \A d \in DrainIds : Done(d) =>
    LET r == drain[d] IN
    /\ \A k \in 1..Len(r.snap) :
         (r.snap[k].id \notin Ids(r.after)) <=> Settled(r, r.snap[k].id, "ok")
    /\ r.success = Count(r, LAMBDA op : Settled(r, op.id, "ok"))
    /\ r.failed = Count(r, LAMBDA op : ~Settled(r, op.id, "ok"))

\* -------------------------------------------------------------------- C2
\* The queued operation that describes a user write action.
PairOf(act) ==
  CASE act = "addExpense" -> [type |-> "expense", action |-> "add"]
    [] act = "addLog" -> [type |-> "log", action |-> "add"]
    [] act = "addMessage" -> [type |-> "message", action |-> "add"]
    [] act = "addMilestone" -> [type |-> "milestone", action |-> "add"]
    [] act = "deleteExpense" -> [type |-> "expense", action |-> "delete"]
    [] act = "updateMilestone" -> [type |-> "milestone", action |-> "update"]
    [] act = "deleteMilestone" -> [type |-> "milestone", action |-> "delete"]
    [] act = "updateProject" -> [type |-> "project", action |-> "update"]

\* C2 (as claimed): a user write action performed online with the backend
\* configured whose direct adapter call raises or returns a failure result
\* appends exactly one operation describing that action to the queue.
C2_FailedDirectWriteEnqueued ==
  [][(/\ acts' = acts + 1
      /\ configured /\ isOnline
      /\ last'.outcome \in {"false", "throw"})
     => queue' = Enqueued(queue, PairOf(last'.act).type, PairOf(last'.act).action,
                          last'.ent, nextId)]_vars

\* -------------------------------------------------------------------- C3
\* C3 (as claimed): an operation enqueued while a processQueue call is in
\* flight is not replayed by that call and is in the queue when the call
\* completes.
C3_EnqueuedDuringDrainKept ==
  \A d \in DrainIds : Done(d) =>
    \A id \in drain[d].during :
      /\ id \in Ids(drain[d].after)
      /\ \A j \in 1..Len(drain[d].ev) : drain[d].ev[j].op /= id

\* -------------------------------------------------------------------- C4
\* C4 (as claimed): at most one processQueue call is in flight.
C4_OneDrainInFlight == Cardinality({d \in DrainIds : InFlight(d)}) <= 1

\* -------------------------------------------------------------------- C7
Pairs(q) == [j \in 1..Len(q) |-> <<q[j].type, q[j].action>>]

\* add log, add expense, delete another expense, in that order, after
\* connectivity was lost with an empty queue.
ScenarioC(t) ==
  /\ t.clean
  /\ Len(t.acts) = 3
  /\ t.acts[1].act = "addLog"
  /\ t.acts[2].act = "addExpense"
  /\ t.acts[3].act = "deleteExpense"
  /\ t.acts[3].ent /= t.acts[2].ent

ScenarioCPairs == << <<"log", "add">>, <<"expense", "add">>, <<"expense", "delete">> >>

\* C7 (as claimed): after scenario C the queue holds log/add, expense/add,
\* expense/delete in that order, and the drain on reconnect replays them in
\* that order.
C7_ScenarioC ==
  /\ (configured /\ ~isOnline /\ ScenarioC(sinceOffline))
       => Pairs(queue) = ScenarioCPairs
  /\ \A d \in DrainIds :
       (configured /\ Done(d) /\ ScenarioC(drain[d].trail))
         => LET r == drain[d]
                c == EvIds(r, {"call"})
            IN  [j \in 1..Len(c) |-> Pairs(r.snap)[Pos(r, c[j])]] = ScenarioCPairs

\* -------------------------------------------------------------------- C5
\* C5 (as claimed): an operation whose type/action pair has no replay
\* handler is counted in failed by every drain and is in the queue after it.
C5_UnhandledPairRetained ==
  \A d \in DrainIds : Done(d) =>
    LET r == drain[d] IN
    /\ \A k \in 1..Len(r.snap) :
         ~HasHandler(r.snap[k]) => r.snap[k].id \in Ids(r.after)
    /\ r.failed = Count(r, LAMBDA op : ~HasHandler(op) \/ Settled(r, op.id, "throw"))

\* -------------------------------------------------------------------- C6
\* The pairs the switch has a case for.
HasCase(op) == HasHandler(op) \/ IsDesignAdd(op)

\* C6 (as claimed): a drain with an always-succeeding adapter leaves the
\* queue empty and replays every enqueued operation once, in enqueue order.
\* Stated for the queues whose pairs all have a case in the switch, so that
\* the pairs C5 is about play no part in it.
C6_DrainEmptiesQueue ==
  \A d \in DrainIds :
    (/\ Done(d) /\ AllOk(drain[d])
     /\ \A k \in 1..Len(drain[d].snap) : HasCase(drain[d].snap[k])) =>
    /\ drain[d].after = <<>>
    /\ EvIds(drain[d], {"call"}) = SeqIds(drain[d].snap)

\* C6 (amended): with an always-succeeding adapter the operations that have
\* a replay handler are replayed once each, in enqueue order, and none of
\* them is in the queue afterwards; a design/add operation is not replayed
\* and stays in the queue.
C6_DrainReplaysHandled ==
  \A d \in DrainIds : (Done(d) /\ AllOk(drain[d])) =>
    LET r == drain[d] IN
    /\ EvIds(r, {"call"}) = SeqIds(SelectSeq(r.snap, HasHandler))
    /\ EvIds(r, {"ok"}) = SeqIds(SelectSeq(r.snap, HasHandler))
    /\ \A k \in 1..Len(r.after) : ~HasHandler(r.after[k])
    /\ SelectSeq(r.after, IsDesignAdd) = SelectSeq(r.snap, IsDesignAdd)

C6_Witness ==
  \E d \in DrainIds :
    /\ Done(d) /\ AllOk(drain[d])
    /\ Len(drain[d].snap) = 2
    /\ HasHandler(drain[d].snap[1]) /\ HasHandler(drain[d].snap[2])
    /\ drain[d].snap[1].type /= drain[d].snap[2].type

\* -------------------------------------------------------------------- C8
\* C8: within one processQueue call the adapter calls are issued in the
\* order of the queue the call started with, each one settled before the
\* next is issued, whatever the types and whichever calls fail.
C8_ReplayInQueueOrder ==
  \A d \in DrainIds :
    LET r == drain[d] IN
    /\ \A j \in 1..Len(r.ev) :
         IF j % 2 = 1 THEN r.ev[j].k = "call"
         ELSE r.ev[j].k \in Outcomes /\ r.ev[j].op = r.ev[j - 1].op
    /\ \A j1, j2 \in 1..Len(r.ev) :
         (j1 < j2 /\ r.ev[j1].k = "call" /\ r.ev[j2].k = "call")
           => Pos(r, r.ev[j1].op) < Pos(r, r.ev[j2].op)

C8_Witness ==
  \E d \in DrainIds :
    LET r == drain[d] IN
    /\ Len(r.ev) = 4
    /\ r.ev[2].k = "throw"
    /\ r.snap[Pos(r, r.ev[1].op)].type /= r.snap[Pos(r, r.ev[3].op)].type

\* ------------------------------------------------------------------- C10
\* C10 (as claimed): a processQueue call made right after another one, with
\* no enqueue in between and an adapter that succeeds during it, returns
\* {success: 0, failed: 0}.
C10_SecondDrainIdle ==
  \A d \in DrainIds : (Done(d) /\ drain[d].pred /= 0 /\ AllOk(drain[d])) =>
    drain[d].success = 0 /\ drain[d].failed = 0

\* C10 (amended): ... returns {success: 0, failed: 0} provided no adapter
\* call raised during the first call and the queue held no design/add
\* operation when the first call started.
C10_SecondDrainIdleAfterCleanFirst ==
  \A d \in DrainIds :
    (/\ Done(d) /\ drain[d].pred /= 0 /\ AllOk(drain[d])
     /\ Done(drain[d].pred) /\ NoThrow(drain[drain[d].pred])
     /\ SelectSeq(drain[drain[d].pred].snap, IsDesignAdd) = <<>>)
    => drain[d].success = 0 /\ drain[d].failed = 0

C10_Witness ==
  \E d \in DrainIds :
    /\ Done(d) /\ drain[d].pred /= 0
    /\ Done(drain[d].pred) /\ NoThrow(drain[drain[d].pred])
    /\ Len(drain[drain[d].pred].ev) >= 2
    /\ SelectSeq(drain[drain[d].pred].snap, IsDesignAdd) = <<>>

\* -------------------------------------------------------------------- C9
\* C9 (as claimed): processQueue never raises to its caller, whatever the
\* adapter, the module loader and the local storage do.
C9_NeverRaises == \A d \in DrainIds : drain[d].pc /= "raised"

\* ------------------------------------------------------------------- C11
\* One expense was added, and nothing else done, since connectivity was lost
\* with an empty queue.
ScenarioA(t) == t.clean /\ Len(t.acts) = 1 /\ t.acts[1].act = "addExpense"

\* C11: with the backend configured, after scenario A the queue holds exactly
\* one expense/add operation carrying the added expense; the return of
\* connectivity starts a processQueue call on that queue; and that call, the
\* remote store accepting the write, returns {success: 1, failed: 0} and
\* leaves the queue empty.
C11_ScenarioA ==
  /\ []((configured /\ ~isOnline /\ ScenarioA(sinceOffline)) =>
          /\ Len(queue) = 1
          /\ queue[1].type = "expense" /\ queue[1].action = "add"
          /\ queue[1].data = sinceOffline.acts[1].ent
          /\ queue[1].data \in Members(project.expenses))
  /\ [][(configured /\ ~isOnline /\ isOnline' /\ ScenarioA(sinceOffline)) =>
          /\ nextDrain' = nextDrain + 1
          /\ drain'[nextDrain].pc = "import"
          /\ drain'[nextDrain].snap = queue]_vars
  /\ [](\A d \in DrainIds :
          (configured /\ Done(d) /\ ScenarioA(drain[d].trail) /\ AllOk(drain[d])) =>
            /\ drain[d].success = 1 /\ drain[d].failed = 0
            /\ drain[d].after = <<>>
            /\ EvIds(drain[d], {"ok"}) = SeqIds(drain[d].snap))

C11_Witness ==
  \E d \in DrainIds :
    /\ configured /\ Done(d) /\ ScenarioA(drain[d].trail) /\ AllOk(drain[d])
    /\ drain[d].success = 1 /\ queue = <<>>

\* ------------------------------------------------------------------- C12
DesignAdds(q) == SelectSeq(q, LAMBDA op : op.type = "design" /\ op.action = "add")

\* C12: every processQueue call counts each design/add operation of the
\* queue in failed and leaves it in the queue, whatever the adapter does for
\* the other operations, and nothing else takes it out of the queue: once
\* enqueued it is in the queue after any number of drains.
C12_DesignAddStays ==
  /\ [](\A d \in DrainIds : Done(d) =>
          LET r == drain[d] IN
          /\ DesignAdds(r.after) = DesignAdds(r.snap)
          /\ r.failed = Len(DesignAdds(r.snap)) + Len(EvIds(r, {"throw"})))
  /\ [][/\ Len(DesignAdds(queue)) <= Len(DesignAdds(queue'))
        /\ SubSeq(DesignAdds(queue'), 1, Len(DesignAdds(queue))) = DesignAdds(queue)]_vars

C12_Witness ==
  /\ Done(1) /\ Done(2)
  /\ Len(drain[1].snap) = 2 /\ Len(DesignAdds(drain[1].snap)) = 1
  /\ Len(EvIds(drain[1], {"ok"})) = 1
  /\ drain[2].snap = DesignAdds(drain[1].snap)
  /\ drain[2].failed = 1
  /\ queue = drain[2].snap

\* ------------------------------------------------------------------- C13
\* The entities of ProjectState, all collections together.
Entities(p) ==
  Members(p.expenses) \cup Members(p.logs) \cup Members(p.designs)
    \cup Members(p.messages) \cup Members(p.timeline)

\* C13 (as claimed): with the backend unconfigured no user write action
\* appends to the queue, while an added entity is in ProjectState.
C13_LocalOnlyNeverQueues ==
  [][(~configured /\ acts' = acts + 1) =>
       /\ queue' = queue
       /\ (last'.act \in {"addExpense", "addLog", "addMessage", "addMilestone"}
             => last'.ent \in Entities(project'))]_vars

\* ------------------------------------------------------------------- C14
\* C14 (as claimed): lastSynced is set only while online and by a remote
\* operation that succeeded: a direct adapter call that returned true, or a
\* processQueue call that counted at least one success.
C14_LastSyncedOnlyOnSuccess ==
  [][lastSynced' /= lastSynced =>
       \/ acts' = acts + 1 /\ isOnline /\ last'.outcome = "ok"
       \/ \E d \in DrainIds :
            /\ ~Done(d) /\ drain'[d].pc = "done"
            /\ isOnline' /\ drain'[d].success > 0]_vars

C16_UniqueIds ==
  \A c \in Tables : \A i, j \in 1..Len(project[c]) :
    i /= j => project[c][i].id /= project[c][j].id

\* ------------------------------------------------------------------- C17
\* The step delivers an INSERT notification.
InsertArrives == feed /= <<>> /\ feed' = Tail(feed) /\ Head(feed).eventType = "INSERT"

\* Nothing but collection c of ProjectState changes, and the queue is kept.
OnlyChanges(c) == queue' = queue /\ \A t \in Tables \ {c} : project'[t] = project[t]

PutIn(q, k, m) == SubSeq(q, 1, k) \o <<m>> \o SubSeq(q, k + 1, Len(q))

C18_TimelineSorted ==
  /\ \A k \in 1..Len(project.timeline) : project.timeline[k].startDate \in Dates
  /\ \A i, j \in 1..Len(project.timeline) :
       i < j => project.timeline[i].startDate <= project.timeline[j].startDate

\* ------------------------------------------------------------------- C19
\* C19 (as claimed): once the project is loaded, the delivery of the
\* notification of a change another client made leaves that change in
\* ProjectState: an inserted entity is present, an updated milestone
\* carries the new status wherever it is listed, a deleted entity is absent.
C19_PeerChangeReflected ==
  [][(mounted /\ loading.pc = "done" /\ feed /= <<>> /\ feed' = Tail(feed)) =>
       LET n == Head(feed)
           now == project'[n.table]
       IN  CASE n.eventType = "INSERT" -> n.new.id \in Ids(now)
             [] n.eventType = "UPDATE" ->
                  /\ n.new.id \in Ids(now)
                  /\ \A k \in 1..Len(now) :
                       now[k].id = n.new.id => now[k].status = n.new.status
             [] n.eventType = "DELETE" -> n.old.id \notin Ids(now)]_vars

\* ------------------------------------------------------------------- C20
\* C20: a session that starts while the store is out of reach starts with
\* the ProjectState the previous session had in memory after its last
\* mutation, entity for entity, field for field and in the same order; and
\* after every callback of a mounted session the cached text is the text
\* of the project in memory.
C20_FreshSessionFromCache ==
  /\ [](mounted => cache = Cached(project))
  /\ [][(~mounted /\ mounted') => project' = project]_vars

\* A session started from the cache of one that ended with an expense, a
\* milestone with a status and a milestone without any property.
C20_Witness ==
  /\ mounted
  /\ last = Step("mount")
  /\ project.expenses /= <<>>
  /\ NoStart(project.timeline) /= {}
  /\ \E k \in 1..Len(project.timeline) : project.timeline[k].status \in Statuses

\* ------------------------------------------------------------------- C26
\* C26: addToQueue appends exactly one operation at the end of the queue:
\* the queue grows by one, the operations that were queued keep their
\* content and order, and the new operation carries the given type, action
\* and data and an id no other operation of the queue has.
C26_AddToQueueAppends ==
  [][last'.act = "addToQueue" =>
       LET given == last'.ent
           new == queue'[Len(queue')]
       IN  /\ Len(queue') = Len(queue) + 1
           /\ SubSeq(queue', 1, Len(queue)) = queue
           /\ new.type = given.type /\ new.action = given.action
           /\ new.data = given.data
           /\ new.id \notin Ids(queue)]_vars

C26_Witness ==
  /\ last.act = "addToQueue"
  /\ Len(queue) = 2
  /\ queue[1].type /= queue[2].type
  /\ queue[2].type = last.ent.type

\* ------------------------------------------------------------------- C28
\* C28: every processQueue call returns, having passed over each operation
\* of the queue it read at its start once: each operation with a replay
\* handler got one adapter call, in queue order, whether or not the calls
\* before it failed, and no operation got two.
C28_EachAttemptedOnce ==
  /\ \A d \in DrainIds : InFlight(d) ~> Done(d)
  /\ [](\A d \in DrainIds :
          LET r == drain[d]
              c == EvIds(r, {"call"})
          IN  /\ \A j1, j2 \in 1..Len(c) : j1 /= j2 => c[j1] /= c[j2]
              /\ Done(d) =>
                    /\ r.i = Len(r.snap) + 1
                    /\ c = SeqIds(SelectSeq(r.snap, HasHandler))
                    /\ EvIds(r, Outcomes) = c)

\* A call that went on to the second operation after the first call raised.
C28_Witness ==
  \E d \in DrainIds :
    /\ Done(d)
    /\ Len(drain[d].snap) = 2
    /\ Len(drain[d].ev) = 4
    /\ drain[d].ev[2].k = "throw"
    /\ drain[d].ev[4].k = "false"

\* ------------------------------------------------------------------- C30
\* C30 (as claimed): for every processQueue call that returned, success +
\* failed is the number of operations the queue held when the call started,
\* and, nothing having been enqueued during the call, the queue holds
\* `failed` operations after it.
C30_DrainAccounting ==
  \A d \in DrainIds : Done(d) =>
    LET r == drain[d] IN
    /\ r.success + r.failed = Len(r.snap)
    /\ r.during = {} => Len(r.after) = r.failed

\* ------------------------------------------------------------------- C23
\* C23 (as claimed), for the failure cause the claim names: with the
\* backend client unconfigured, no call of a write method of the adapter
\* settles by raising.
C23_AdapterNeverRaises == ~configured => \A d \in DrainIds : NoThrow(drain[d])

\* ------------------------------------------------------------------- C25
\* C25 (as claimed): a voice note recorded offline, or whose upload fails,
\* is not put in the queue.
C25_VoiceNoteNeverQueued ==
  [][(acts' = acts + 1 /\ last'.act = "voiceNote" /\ last'.outcome /= "ok")
       => queue' = queue]_vars

\* ------------------------------------------------------------------- C24
\* The store holds a row with the id of the entity that operation op adds.
Stored(op) ==
  /\ op.action = "add"
  /\ TableOf(op.type) \in Tables
  /\ op.data.id \in {r.id : r \in remote[TableOf(op.type)]}

\* C24: the store holds at most one row per entity id in each table; and
\* when a processQueue call replays an add whose entity id the store holds
\* already, the call inserts no row, and if it returns (failure result) the
\* operation is not kept in the queue.
C24_InsertAtMostOnce ==
  /\ [](\A t \in Tables : \A r1, r2 \in remote[t] : r1.id = r2.id => r1 = r2)
  /\ [][\A d \in DrainIds :
          (/\ drain[d].pc = "await" /\ Len(drain'[d].ev) > Len(drain[d].ev)
           /\ Stored(OpAt(drain[d]))) =>
            LET e == drain'[d].ev[Len(drain[d].ev) + 1] IN
            /\ remote' = remote
            /\ e.k /= "ok"
            /\ e.k = "false" => OpAt(drain[d]).id \notin Ids(drain'[d].remaining)]_vars

\* Two calls replayed the same add: the first inserted the row, the second
\* got a failure result, and the queue is empty.
C24_Witness ==
  /\ Done(1) /\ Done(2)
  /\ drain[1].snap = drain[2].snap
  /\ Len(drain[1].snap) = 1
  /\ Stored(drain[1].snap[1])
  /\ \E a, b \in DrainIds :
       /\ Settled(drain[a], drain[a].snap[1].id, "ok")
       /\ Settled(drain[b], drain[b].snap[1].id, "false")
  /\ queue = <<>>

\* ------------------------------------------------------------------- C22
\* C22: the App has at most one open listener per table and none while
\* logged out; a notification delivered while logged out changes nothing
\* of ProjectState, and one delivered to a session adds at most one entity.
C22_OneListenerPerTable ==
  /\ [](\A t \in Tables : subs[t] <= 1 /\ (~session => subs[t] = 0))
  /\ [][(feed /= <<>> /\ feed' = Tail(feed)) =>
          /\ ~session => project' = project
          /\ \A t \in Tables : Len(project'[t]) <= Len(project[t]) + 1]_vars

\* A second login, after a session that loaded the project: one listener
\* per table is open again.
C22_Witness ==
  /\ last.act = "login"
  /\ lastSynced = Now("load", 0)
  /\ session
  /\ \A t \in Tables : subs[t] = 1

\* ------------------------------------------------------------------- C21
\* ProjectState is the cached snapshot and the cached text is kept.
FromCacheOnly == project' = Hydrate(cache) /\ cache' = cache

\* C21 (as claimed): a load starts at each session start and at no other
\* time; when getProject has read every table, ProjectState and the cache
\* become what it read; when a read failed, getProject returned no project
\* or raised, or the backend is unconfigured, ProjectState is the cached
\* snapshot and the cache keeps its text.
C21_LoadedOnceAtSessionStart ==
  [][/\ (loading.pc = "done" /\ loading'.pc = "pending") <=> (~session /\ session' /\ configured)
     /\ (loading.pc = "read" /\ loading'.pc = "done") =>
          IF loading.lost = {}
            THEN project' = loading.data /\ cache' = Cached(loading.data)
            ELSE FromCacheOnly
     /\ (loading.pc = "pending" /\ loading'.pc = "done") => FromCacheOnly
     /\ (~session /\ session' /\ ~configured) => FromCacheOnly /\ loading' = loading]_vars

\* ------------------------------------------------------------------- C27
\* C27: a page reload, a logout, a login, an incoming notification and a
\* getQueue call leave the queue as it is, and whenever the queue changes
\* an addToQueue call has appended one operation to it or a processQueue
\* call has finished and written what it kept (nothing, when it cleared
\* the queue).
C27_QueueDurable ==
  [][/\ last'.act \in {"unload", "mount", "login", "logout", "notify", "getQueue"}
          => queue' = queue
     /\ queue' /= queue =>
          \/ /\ Len(queue') = Len(queue) + 1
             /\ SubSeq(queue', 1, Len(queue)) = queue
             /\ acts' = acts + 1
          \/ \E d \in DrainIds :
               /\ InFlight(d) /\ drain'[d].pc = "done"
               /\ queue' = drain'[d].remaining]_vars

\* A session started by a reload that cut a processQueue call short finds
\* the operation still queued.
C27_Witness ==
  /\ last.act = "mount"
  /\ queue /= <<>>
  /\ \E d \in DrainIds : drain[d].pc = "gone" /\ drain[d].snap = queue

\* ------------------------------------------------------------------- C29
\* The collection an add handler puts its entity into.
CollectionOf(act) ==
  CASE act = "addExpense" -> "expenses"
    [] act = "addLog" -> "logs"
    [] act = "addMessage" -> "messages"
    [] act = "addMilestone" -> "timeline"

\* C29 (as claimed): when the handler of add expense, add log, add text
\* message or add milestone has run, online or offline and whatever the
\* adapter call comes to, the new entity is in its collection of
\* ProjectState; and no step of a processQueue call changes ProjectState.
C29_OptimisticUpdate ==
  [][/\ (/\ loading.pc = "done" /\ acts' = acts + 1
         /\ last'.act \in {"addExpense", "addLog", "addMessage", "addMilestone"}) =>
          \E k \in 1..Len(project'[CollectionOf(last'.act)]) :
            project'[CollectionOf(last'.act)][k] = last'.ent
     /\ last'.act \in {"import", "settle"} => project' = project]_vars

\* ------------------------------------------------------------------- C31
\* s is t with some of its elements left out.
RECURSIVE IsSubSeq(_, _)
IsSubSeq(s, t) ==
  IF s = <<>> THEN TRUE
  ELSE IF t = <<>> THEN FALSE
  ELSE IF Head(s) = Head(t) THEN IsSubSeq(Tail(s), Tail(t))
  ELSE IsSubSeq(s, Tail(t))

\* C31: when a processQueue call finishes, the queue it leaves is the
\* queue it read at its start with some operations left out: the kept
\* operations are the same records, in the same relative order.
C31_RetainedInOrder ==
  [][\A d \in DrainIds :
       (~Done(d) /\ drain'[d].pc = "done") => IsSubSeq(queue', drain'[d].snap)]_vars

\* A call over two operations has kept both, one after its adapter call
\* raised, and the queue holds them in the order they had.
C31_Witness ==
  \E d \in DrainIds :
    /\ Done(d)
    /\ Len(drain[d].snap) = 2
    /\ queue = drain[d].snap
    /\ \E j \in 1..Len(drain[d].ev) : drain[d].ev[j].k = "throw"

\* ------------------------------------------------------------------- C32
\* The number of entities of collection q that carry the id.
Times(q, id) == Cardinality({k \in 1..Len(q) : q[k].id = id})

\* C32 (as claimed): once the load of the session start is over, the drain
\* of the session start has replayed every queued add with success and
\* every notification has been delivered, each entity of a queued add is in
\* its collection of ProjectState exactly once.
C32_PendingAddsPresentOnce ==
  (/\ mounted /\ loading.pc = "done" /\ feed = <<>> /\ queue = <<>>
   /\ \E d \in DrainIds : Done(d) /\ drain[d].snap = PendingAdds /\ AllOk(drain[d]))
  => \A j \in 1..Len(PendingAdds) :
       Times(project[TableOf(PendingAdds[j].type)], PendingAdds[j].data.id) = 1

\* ------------------------------------------------------------------- C33
\* Every user action so far was made in the offline period that call d
\* ended, the period began with an empty queue, and the call is over with
\* every adapter call of it succeeded.
DrainedAfterOffline(d) ==
  /\ Done(d) /\ AllOk(drain[d])
  /\ drain[d].trail.clean /\ Len(drain[d].trail.acts) = acts
  /\ isOnline /\ \A e \in DrainIds : ~InFlight(e)

\* C33 (as claimed): after adds and deletes made offline, a reconnect and
\* a drain whose adapter calls all succeed, the ids of every table of the
\* store are the ids of the collection of ProjectState.
C33_ConvergesAfterOffline ==
  (\E d \in DrainIds : DrainedAfterOffline(d)) =>
    \A t \in Tables : {r.id : r \in remote[t]} = Ids(project[t])

\* ------------------------------------------------------------------- C34
\* The step settles no adapter call with a failure, returned or raised:
\* neither the direct call of a handler nor a call of a drain.
AdapterSucceeds ==
  /\ last' /= last => last'.outcome \notin {"false", "throw"}
  /\ \A d \in DrainIds :
       Len(drain'[d].ev) > Len(drain[d].ev) =>
         drain'[d].ev[Len(drain'[d].ev)].k \notin {"false", "throw"}

\* C34 (as claimed): if from some point on connectivity is online and no
\* adapter call fails, every operation that is in the queue (each is an
\* expense add, which has a replay handler) is eventually out of it.
C34_EventualReplay ==
  (<>[]isOnline /\ <>[][AdapterSucceeds]_vars) =>
    \A id \in 1..MaxActs : (id \in Ids(queue)) ~> (id \notin Ids(queue))

C35_SyncingWhileInFlight ==
  (mounted /\ \E d \in DrainIds : InFlight(d)) => isSyncing

====
